---- MODULE Spec2Model ----
(***************************************************************************)
(* Fixed-length (120 byte) record codec, sample generator and stream       *)
(* parser of try_py_struct (generate_records.py, record_parser.py).        *)
(*                                                                         *)
(* Bytes are integers 0..255, byte strings are sequences of bytes, text is *)
(* a sequence of Unicode code points.  Integers of the model stay below    *)
(* 2^31 (the range of TLC's integers); field widths are the program's.     *)
(***************************************************************************)
EXTENDS Integers, Sequences, FiniteSets, TLC

\* ------------------------------------------------------------------------
\* Program constants
\* ------------------------------------------------------------------------
RECORD_TYPE_HEADER == 1
RECORD_TYPE_DATA == 2
RECORD_TYPE_TRAILER == 8
RECORD_SIZE == 120

\* ------------------------------------------------------------------------
\* Results of an operation that may raise: a value, or the exception.
\* A raised exception carries no value.
\* ------------------------------------------------------------------------
Ok(v) == [tag |-> "ok", val |-> v]
Err(e) == [tag |-> "err", err |-> e]
IsOk(r) == r.tag = "ok"
IsErr(r) == r.tag = "err"

None == "None"

\* No result yet.
NoResult == [tag |-> "none"]

\* bytes(n): n zero bytes
Zeros(n) == [i \in 1..n |-> 0]

RECURSIVE Concat(_)
\* b"".join(parts)
Concat(parts) ==
  IF parts = <<>> THEN <<>> ELSE Head(parts) \o Concat(Tail(parts))

\* Variant: the padding is left on.
RStripZeros_Keep(b) == b

RECURSIVE RStripZeros(_)
\* obj.rstrip(b'\x00')
RStripZeros(b) ==
  IF b = <<>> THEN <<>>
  ELSE IF b[Len(b)] = 0 THEN RStripZeros(SubSeq(b, 1, Len(b) - 1))
  ELSE b

\* Variant: no padding is added.
LJustZeros_NoPad(b, length) == b

\* encoded.ljust(length, b'\x00')
LJustZeros(b, length) ==
  IF Len(b) >= length THEN b ELSE b \o Zeros(length - Len(b))

\* ------------------------------------------------------------------------
\* Python's shift_jis codec, restricted to the code points the program's
\* own text uses (its sample names and descriptions) plus the single-byte
\* ranges.  Double-byte pairs are <<code point, lead byte, trail byte>>.
\* ------------------------------------------------------------------------
SJISPairs ==
  { <<12293, 129, 88>>, <<19968, 136, 234>>, <<19978, 143, 227>>,
    <<20013, 146, 134>>, <<20043, 148, 86>>, <<20117, 136, 228>>,
    <<20234, 136, 201>>, <<20304, 141, 178>>, <<20581, 140, 146>>,
    <<20778, 151, 68>>, <<20808, 144, 230>>, <<20966, 143, 136>>,
    <<21029, 149, 202>>, <<21152, 137, 193>>, <<21513, 139, 103>>,
    <<21682, 141, 231>>, <<22823, 145, 229>>, <<22826, 145, 190>>,
    <<23376, 142, 113>>, <<23389, 141, 70>>, <<23450, 146, 232>>,
    <<23567, 143, 172>>, <<23665, 142, 82>>, <<24120, 143, 237>>,
    <<24613, 139, 125>>, <<24859, 136, 164>>, <<26234, 146, 113>>,
    <<26399, 138, 250>>, <<26408, 150, 216>>, <<26412, 150, 123>>,
    <<26449, 145, 186>>, <<26494, 143, 188>>, <<26519, 151, 209>>,
    <<27211, 139, 180>>, <<27425, 142, 159>>, <<28193, 147, 110>>,
    <<29305, 147, 193>>, <<29702, 151, 157>>, <<30000, 147, 99>>,
    <<30001, 151, 82>>, <<30495, 144, 94>>, <<32202, 139, 217>>,
    <<32654, 148, 252>>, <<33457, 137, 212>>, <<34276, 147, 161>>,
    <<35488, 144, 189>>, <<36628, 149, 227>>, <<36794, 149, 211>>,
    <<36890, 146, 202>>, <<37070, 152, 89>>, <<37428, 151, 233>>,
    <<38525, 151, 122>>, <<39640, 141, 130>> }

SJISDoubleChars == { p[1] : p \in SJISPairs }

\* The bytes of one code point under shift_jis, <<>> when it has none.
\* ASCII maps to itself; U+00A5 (yen) maps to 0x5C and U+203E (overline)
\* to 0x7E; U+FF61..U+FF9F (half-width katakana) map to 0xA1..0xDF.
SJISEncodeChar(c) ==
  IF c >= 0 /\ c < 128 THEN <<c>>
  ELSE IF c = 165 THEN <<92>>
  ELSE IF c = 8254 THEN <<126>>
  ELSE IF c >= 65377 /\ c <= 65439 THEN <<c - 65377 + 161>>
  ELSE IF c \in SJISDoubleChars
       THEN LET p == CHOOSE q \in SJISPairs : q[1] = c IN <<p[2], p[3]>>
  ELSE <<>>

RECURSIVE SJISEncodeChars(_)
SJISEncodeChars(text) ==
  IF text = <<>> THEN <<>>
  ELSE SJISEncodeChar(Head(text)) \o SJISEncodeChars(Tail(text))

\* obj.encode('shift_jis'): raises UnicodeEncodeError on a code point the
\* encoding lacks.
SJISEncode(text) ==
  IF \E i \in DOMAIN text : SJISEncodeChar(text[i]) = <<>>
  THEN Err("UnicodeEncodeError")
  ELSE Ok(SJISEncodeChars(text))

IsSJISLead(b) == (b >= 129 /\ b <= 159) \/ (b >= 224 /\ b <= 252)

RECURSIVE SJISDecodeIgnore(_)
\* bytes.decode('shift_jis', errors='ignore'): a byte below 0x80 is its own
\* code point (0x5C is U+005C, 0x7E is U+007E), 0xA1..0xDF is half-width
\* katakana, a lead byte with a known trail byte is that pair's code point,
\* and any other byte is dropped and decoding goes on with the next byte.
SJISDecodeIgnore(b) ==
  IF b = <<>> THEN <<>>
  ELSE LET x == Head(b) IN
    IF x < 128 THEN <<x>> \o SJISDecodeIgnore(Tail(b))
    ELSE IF x >= 161 /\ x <= 223
         THEN <<x - 161 + 65377>> \o SJISDecodeIgnore(Tail(b))
    ELSE IF IsSJISLead(x) /\ Len(b) >= 2
            /\ \E p \in SJISPairs : p[2] = x /\ p[3] = b[2]
         THEN LET p == CHOOSE q \in SJISPairs : q[2] = x /\ q[3] = b[2]
              IN <<p[1]>> \o SJISDecodeIgnore(SubSeq(b, 3, Len(b)))
    ELSE SJISDecodeIgnore(Tail(b))

\* Variant: a text too long for the field is cut to the field's length.
ShiftJISString_encode_Truncate(length, obj) ==
  LET encoded == SJISEncode(obj) IN
    IF IsErr(encoded) THEN encoded
    ELSE IF Len(encoded.val) > length
    THEN Ok(SubSeq(encoded.val, 1, length))
    ELSE Ok(LJustZeros(encoded.val, length))

\* ShiftJISString(length)._encode
ShiftJISString_encode(length, obj) ==
  LET encoded == SJISEncode(obj) IN
    IF IsErr(encoded) THEN encoded
    ELSE IF Len(encoded.val) > length THEN Err("ValueError: too long")
    ELSE Ok(LJustZeros(encoded.val, length))

\* ShiftJISString(length)._decode
ShiftJISString_decode(obj) == Ok(SJISDecodeIgnore(RStripZeros(obj)))

\* PaddedString(length, "ascii") build: the text as ASCII bytes, right-padded
\* with zero bytes; a non-ASCII code point or a text longer than the field
\* raises.
PaddedString_build(length, obj) ==
  IF \E i \in DOMAIN obj : obj[i] > 127 THEN Err("StringError")
  ELSE IF Len(obj) > length THEN Err("PaddingError")
  ELSE Ok(LJustZeros(obj, length))

\* PaddedString(length, "ascii") parse: trailing zero bytes stripped, the
\* rest decoded as ASCII; a byte above 0x7F raises.
PaddedString_parse(obj) ==
  LET s == RStripZeros(obj) IN
    IF \E i \in DOMAIN s : s[i] > 127 THEN Err("StringError") ELSE Ok(s)

RECURSIVE LittleEndian(_, _)
LittleEndian(width, x) ==
  IF width = 0 THEN <<>>
  ELSE <<x % 256>> \o LittleEndian(width - 1, x \div 256)

\* Int8ul / Int32ul / Int64ul build: a value outside the field's range
\* raises.  Values of the model are below 2^31, so only the one-byte field
\* has an upper limit a value can exceed.
IntUL_build(width, x) ==
  IF x < 0 \/ (width = 1 /\ x > 255) THEN Err("FormatFieldError")
  ELSE Ok(LittleEndian(width, x))

RECURSIVE IntUL_value(_)
IntUL_value(b) ==
  IF b = <<>> THEN 0 ELSE Head(b) + 256 * IntUL_value(Tail(b))

\* Int8ul / Int32ul / Int64ul parse
IntUL_parse(b) == Ok(IntUL_value(b))

\* Const(value, Int8ul) build: the constant, whatever the object holds.
Const_build(value) == Ok(<<value>>)

\* Variant: the byte read is returned unchecked.
Const_parse_Unchecked(value, b) == Ok(b[1])

\* Const(value, Int8ul) parse: the byte read must be the constant.
Const_parse(value, b) ==
  IF b[1] # value THEN Err("ConstError") ELSE Ok(value)

\* Padding(n): zero bytes on build, contents ignored on parse.
Padding_build(n) == Ok(Zeros(n))
Padding_parse(b) == Ok(None)

\* ------------------------------------------------------------------------
\* Record layouts: Struct(...) as the ordered list of its fields.
\* ------------------------------------------------------------------------
Field(n, t, w, v) == [name |-> n, type |-> t, width |-> w, value |-> v]

HeaderRecord ==
  << Field("record_type", "Const", 1, RECORD_TYPE_HEADER),
     Field("file_name", "ShiftJISString", 30, 0),
     Field("creation_date", "PaddedString", 8, 0),
     Field("creation_time", "PaddedString", 6, 0),
     Field("total_records", "IntUL", 4, 0),
     Field("version", "PaddedString", 10, 0),
     Field("reserved", "Padding", 61, 0) >>

DataRecord ==
  << Field("record_type", "Const", 1, RECORD_TYPE_DATA),
     Field("record_id", "IntUL", 4, 0),
     Field("name", "ShiftJISString", 50, 0),
     Field("value", "IntUL", 4, 0),
     Field("status", "IntUL", 1, 0),
     Field("timestamp", "PaddedString", 14, 0),
     Field("description", "ShiftJISString", 40, 0),
     Field("reserved", "Padding", 6, 0) >>

TrailerRecord ==
  << Field("record_type", "Const", 1, RECORD_TYPE_TRAILER),
     Field("data_record_count", "IntUL", 4, 0),
     Field("total_value_sum", "IntUL", 8, 0),
     Field("checksum", "IntUL", 4, 0),
     Field("reserved", "Padding", 103, 0) >>

\* The struct of a record kind.
StructOf(kind) ==
  CASE kind = "HEADER" -> HeaderRecord
    [] kind = "DATA" -> DataRecord
    [] kind = "TRAILER" -> TrailerRecord

Kinds == {"HEADER", "DATA", "TRAILER"}

RECURSIVE SumWidths(_, _)
\* bytes taken by the first n fields of a struct
SumWidths(struct, n) ==
  IF n = 0 THEN 0 ELSE SumWidths(struct, n - 1) + struct[n].width

\* Struct.sizeof()
SizeOf(struct) == SumWidths(struct, Len(struct))

\* One field's build from the object being built.
BuildField(f, obj) ==
  CASE f.type = "Const" -> Const_build(f.value)
    [] f.type = "IntUL" -> IntUL_build(f.width, obj[f.name])
    [] f.type = "ShiftJISString" -> ShiftJISString_encode(f.width, obj[f.name])
    [] f.type = "PaddedString" -> PaddedString_build(f.width, obj[f.name])
    [] f.type = "Padding" -> Padding_build(f.width)

\* One field's parse from the bytes it owns.
ParseField(f, b) ==
  CASE f.type = "Const" -> Const_parse(f.value, b)
    [] f.type = "IntUL" -> IntUL_parse(b)
    [] f.type = "ShiftJISString" -> ShiftJISString_decode(b)
    [] f.type = "PaddedString" -> PaddedString_parse(b)
    [] f.type = "Padding" -> Padding_parse(b)

RECURSIVE BuildFields(_, _, _, _)
\* The fields from the i-th on, built in declared order onto the bytes so
\* far; the first field that fails raises.
BuildFields(struct, obj, i, acc) ==
  IF i > Len(struct) THEN Ok(acc)
  ELSE LET r == BuildField(struct[i], obj) IN
    IF IsErr(r) THEN r ELSE BuildFields(struct, obj, i + 1, acc \o r.val)

\* Struct.build(obj): the fields' bytes in declared order; when a field
\* fails the exception leaves build and nothing is returned.
Struct_build(struct, obj) == BuildFields(struct, obj, 1, <<>>)

RECURSIVE ParseFields(_, _, _, _)
\* The fields from the i-th on, parsed in declared order, each from the
\* bytes that follow the fields before it; acc maps the names parsed so
\* far to their values.  The first field that fails raises.
ParseFields(struct, data, i, acc) ==
  IF i > Len(struct) THEN Ok(acc)
  ELSE LET f == struct[i]
           off == SumWidths(struct, i - 1)
           r == IF Len(data) < off + f.width THEN Err("StreamError")
                ELSE ParseField(f, SubSeq(data, off + 1, off + f.width))
       IN IF IsErr(r) THEN r
          ELSE ParseFields(struct, data, i + 1,
                 [n \in DOMAIN acc \cup {f.name} |->
                    IF n = f.name THEN r.val ELSE acc[n]])

\* Struct.parse(data): a container of every field's value; when a field
\* fails the exception leaves parse and no container is returned.  Bytes
\* beyond the last field are left unread.
Struct_parse(struct, data) ==
  ParseFields(struct, data, 1, [n \in {} |-> None])

\* ------------------------------------------------------------------------
\* record_parser.py
\* ------------------------------------------------------------------------
detect_record_type(data) == IF Len(data) < 1 THEN None ELSE data[1]

parse_record(data) ==
  IF Len(data) # RECORD_SIZE THEN Err("ValueError: record size")
  ELSE LET record_type == detect_record_type(data) IN
    IF record_type = RECORD_TYPE_HEADER
    THEN LET parsed == Struct_parse(HeaderRecord, data) IN
         IF IsErr(parsed) THEN parsed ELSE Ok(<<parsed.val, "HEADER">>)
    ELSE IF record_type = RECORD_TYPE_DATA
    THEN LET parsed == Struct_parse(DataRecord, data) IN
         IF IsErr(parsed) THEN parsed ELSE Ok(<<parsed.val, "DATA">>)
    ELSE IF record_type = RECORD_TYPE_TRAILER
    THEN LET parsed == Struct_parse(TrailerRecord, data) IN
         IF IsErr(parsed) THEN parsed ELSE Ok(<<parsed.val, "TRAILER">>)
    ELSE Err("ValueError: unknown record type")

\* ------------------------------------------------------------------------
\* generate_records.py
\* ------------------------------------------------------------------------
\* datetime.now(): the instants the clock may show, as the digits of
\* strftime("%Y%m%d") and strftime("%H%M%S").
Clocks ==
  { [date |-> <<50, 48, 50, 52, 48, 49, 48, 49>>,
     time |-> <<49, 50, 48, 48, 48, 48>>],
    [date |-> <<50, 48, 50, 52, 49, 50, 51, 49>>,
     time |-> <<50, 51, 53, 57, 53, 57>>] }

create_header_record(file_name, total_records, version, now) ==
  Struct_build(HeaderRecord,
    [file_name |-> file_name,
     creation_date |-> now.date,
     creation_time |-> now.time,
     total_records |-> total_records,
     version |-> version])

create_data_record(record_id, name, value, status, description, now) ==
  Struct_build(DataRecord,
    [record_id |-> record_id,
     name |-> name,
     value |-> value,
     status |-> status,
     timestamp |-> now.date \o now.time,
     description |-> description])

create_trailer_record(data_record_count, total_value_sum_, checksum) ==
  Struct_build(TrailerRecord,
    [data_record_count |-> data_record_count,
     total_value_sum |-> total_value_sum_,
     checksum |-> checksum])

sample_names ==
  << <<30000, 20013, 22826, 37070>>, <<20304, 34276, 33457, 23376>>,
     <<37428, 26408, 19968, 37070>>, <<39640, 27211, 27425, 37070>>,
     <<20234, 34276, 32654, 21682>>, <<28193, 36794, 20581, 22826>>,
     <<23665, 26412, 30001, 32654>>, <<20013, 26449, 38525, 23376>>,
     <<23567, 26519, 22823, 36628>>, <<21152, 34276, 24859>>,
     <<21513, 30000, 26234, 23376>>, <<23665, 30000, 23389, 20043>>,
     <<20304, 12293, 26408, 30495>>, <<26494, 26412, 20778, 23376>>,
     <<20117, 19978, 35488>> >>

sample_descriptions ==
  << <<36890, 24120, 20966, 29702>>, <<29305, 21029, 20966, 29702>>,
     <<20778, 20808, 20966, 29702>>, <<23450, 26399, 20966, 29702>>,
     <<32202, 24613, 20966, 29702>> >>

\* "sample_data.bin"
SampleFileName ==
  <<115, 97, 109, 112, 108, 101, 95, 100, 97, 116, 97, 46, 98, 105, 110>>

\* version="1.0"
DefaultVersion == <<49, 46, 48>>

\* Variant: sum(range(1, n)), one term short.
SumRange_OffByOne(n) == IF n <= 0 THEN 0 ELSE (n * (n - 1)) \div 2

RECURSIVE SumRange(_)
\* sum(range(1, n + 1))
SumRange(n) == IF n <= 0 THEN 0 ELSE n + SumRange(n - 1)

\* The data record of loop index i (0-based) of generate_sample_data.
SampleDataRecord(i, now) ==
  create_data_record(i + 1,
                     sample_names[(i % Len(sample_names)) + 1],
                     (i + 1) * 1000,
                     IF i % 3 # 0 THEN 1 ELSE 0,
                     sample_descriptions[(i % Len(sample_descriptions)) + 1],
                     now)

\* ------------------------------------------------------------------------
\* Bounds and input sets
\* ------------------------------------------------------------------------
\* Largest number of data records requested from the generator and held
\* by a composed input stream.
MaxN == 3

Repeat(c, n) == [i \in 1..n |-> c]

\* Texts offered to a legacy text field of the given capacity: empty, one
\* ASCII letter, a double-byte name, the yen sign, a text ending in U+0000,
\* a code point shift_jis lacks, a text filling the field exactly and one
\* a byte too long.
TextsFor(cap) ==
  { <<>>, <<65>>, <<30000, 20013, 22826, 37070>>, <<165>>, <<65, 0>>,
    <<233>>, Repeat(30000, cap \div 2), Repeat(30000, cap \div 2) \o <<65>> }

\* Texts offered to an ASCII field of the given width.
AsciiFor(width) ==
  { <<>>, Repeat(49, width), Repeat(49, width + 1), <<49, 0>>, <<30000>> }

HeaderValues ==
  [file_name : TextsFor(30),
   creation_date : AsciiFor(8),
   creation_time : {Repeat(49, 6)},
   total_records : {0, 12},
   version : {<<49, 46, 48>>, Repeat(49, 11)}]

DataValues ==
  [record_id : {1, 70000},
   name : TextsFor(50),
   value : {1000},
   status : {0, 1, 2},
   timestamp : {<<>>, Repeat(49, 14), Repeat(49, 15)},
   description : {<<36890, 24120, 20966, 29702>>, Repeat(30000, 21)}]

TrailerValues ==
  [data_record_count : {0, 3},
   total_value_sum : {0, 6000, 2147483647},
   checksum : {0, 6, -1}]

ValuesOf(kind) ==
  CASE kind = "HEADER" -> HeaderValues
    [] kind = "DATA" -> DataValues
    [] kind = "TRAILER" -> TrailerValues

\* A frame whose first byte names no record kind.
UnknownFrame == <<5>> \o Zeros(RECORD_SIZE - 1)

\* A header frame whose creation_date holds a byte that is not ASCII.
BadAsciiFrame ==
  <<RECORD_TYPE_HEADER>> \o Zeros(30) \o <<255>> \o Zeros(RECORD_SIZE - 32)

\* The clock reading used for the frames of input streams.
StreamClock ==
  [date |-> <<50, 48, 50, 52, 48, 49, 48, 49>>,
   time |-> <<49, 50, 48, 48, 48, 48>>]

\* The frames 1 Header + n Data + 1 Trailer as the generator encodes them.
ComposedFrames(n) ==
  << create_header_record(SampleFileName, n + 2, DefaultVersion,
                          StreamClock).val >>
  \o [i \in 1..n |-> SampleDataRecord(i - 1, StreamClock).val]
  \o << create_trailer_record(n, 1000 * SumRange(n), SumRange(n)).val >>

\* Frames put in the place of a frame of a composed stream.
SubstFrames ==
  { UnknownFrame, BadAsciiFrame, create_trailer_record(0, 0, 0).val }

\* Numbers of bytes missing at the end of an input stream.
Cuts == {0, 1, RECORD_SIZE - 1, RECORD_SIZE}

\* Byte sources offered to the parser: a composed stream, possibly with one
\* frame replaced, possibly cut short.
Streams ==
  LET framed ==
        UNION { {ComposedFrames(n)}
                \cup { [ComposedFrames(n) EXCEPT ![j] = f] :
                         j \in 1..(n + 2), f \in SubstFrames }
              : n \in 0..MaxN }
  IN { SubSeq(Concat(fs), 1, Len(Concat(fs)) - c) : fs \in framed, c \in Cuts }

\* ------------------------------------------------------------------------
\* State
\* ------------------------------------------------------------------------
VARIABLES
  prog,             \* which entry point runs: "codec", "generate_records", "record_parser"
  c_kind,           \* codec: kind of the codec that built
  c_value,          \* codec: the logical value handed to build
  built,            \* codec: result of build
  p_kind,           \* codec: kind of the codec that parsed
  c_frame,          \* codec: the bytes handed to parse
  parsed,           \* codec: result of parse
  num_records,      \* generator: args.num_records
  gen_pc,           \* generator: position in generate_sample_data
  g_i,              \* generator: loop index
  data_records,     \* generator: data_records
  total_value_sum,  \* generator: total_value_sum
  checksum,         \* generator: checksum
  sink,             \* generator: bytes written to sys.stdout.buffer
  stream,           \* parser: the bytes of sys.stdin.buffer
  pos,              \* parser: read cursor of the stream
  reader_state,     \* parser: parse_stream's state
  results,          \* parser: results
  record_num,       \* parser: record_num
  parse_calls,      \* parser: lengths of the byte strings given to parse_record
  summary,          \* parser: args.summary
  printed,          \* parser: what main printed to stdout
  main_pc,          \* main: "start", "try", "exit"
  exc,              \* the exception being propagated, or None
  stderr,           \* messages written to sys.stderr
  exit_code         \* process exit code, or None while running

codec_vars == <<c_kind, c_value, built, p_kind, c_frame, parsed>>
gen_vars == <<num_records, gen_pc, g_i, data_records, total_value_sum,
              checksum, sink>>
parser_vars == <<stream, pos, reader_state, results, record_num,
                 parse_calls, summary, printed>>
main_vars == <<main_pc, exc, stderr, exit_code>>
vars == <<prog, codec_vars, gen_vars, parser_vars, main_vars>>

CodecIdle ==
  /\ c_kind = None /\ c_value = None /\ built = NoResult
  /\ p_kind = None /\ c_frame = <<>> /\ parsed = NoResult

GenIdle ==
  /\ num_records = 0 /\ gen_pc = "idle" /\ g_i = 0 /\ data_records = <<>>
  /\ total_value_sum = 0 /\ checksum = 0 /\ sink = <<>>

ParserIdle ==
  /\ stream = <<>> /\ pos = 0 /\ reader_state = "Idle" /\ results = <<>>
  /\ record_num = 1 /\ parse_calls = <<>> /\ summary = FALSE
  /\ printed = <<>>

MainIdle ==
  /\ main_pc = "start" /\ exc = None /\ stderr = <<>> /\ exit_code = None

InitCodec ==
  /\ prog = "codec"
  /\ CodecIdle /\ GenIdle /\ ParserIdle /\ MainIdle

InitGen ==
  /\ prog = "generate_records"
  /\ CodecIdle /\ ParserIdle /\ MainIdle
  /\ num_records \in -1..MaxN
  /\ gen_pc = "idle" /\ g_i = 0 /\ data_records = <<>>
  /\ total_value_sum = 0 /\ checksum = 0 /\ sink = <<>>

InitParser ==
  /\ prog = "record_parser"
  /\ CodecIdle /\ GenIdle /\ MainIdle
  /\ stream \in Streams
  /\ summary \in BOOLEAN
  /\ pos = 0 /\ reader_state = "Idle" /\ results = <<>>
  /\ record_num = 1 /\ parse_calls = <<>> /\ printed = <<>>

Init == InitCodec \/ InitGen \/ InitParser

\* ------------------------------------------------------------------------
\* Codec operations applied to drawn inputs
\* ------------------------------------------------------------------------
\* <Kind>Record.build(value)
CodecBuild(kind, v) ==
  /\ prog = "codec" /\ c_kind = None /\ p_kind = None
  /\ c_kind' = kind
  /\ c_value' = v
  /\ built' = Struct_build(StructOf(kind), v)
  /\ UNCHANGED <<prog, p_kind, c_frame, parsed, gen_vars, parser_vars,
                 main_vars>>

\* <Kind>Record.parse(bytes) on the bytes a build returned
CodecParse(kind) ==
  /\ prog = "codec" /\ IsOk(built) /\ p_kind = None
  /\ p_kind' = kind
  /\ c_frame' = built.val
  /\ parsed' = Struct_parse(StructOf(kind), built.val)
  /\ UNCHANGED <<prog, c_kind, c_value, built, gen_vars, parser_vars,
                 main_vars>>

\* <Kind>Record.parse(bytes) on a frame that no build of the model returned
CodecParseRaw(kind, f) ==
  /\ prog = "codec" /\ c_kind = None /\ p_kind = None
  /\ p_kind' = kind
  /\ c_frame' = f
  /\ parsed' = Struct_parse(StructOf(kind), f)
  /\ UNCHANGED <<prog, c_kind, c_value, built, gen_vars, parser_vars,
                 main_vars>>

\* ------------------------------------------------------------------------
\* generate_records.py: main and generate_sample_data
\* ------------------------------------------------------------------------
\* main up to the call of generate_sample_data
GenMainStart ==
  /\ prog = "generate_records" /\ main_pc = "start"
  /\ IF num_records < 1
     THEN /\ stderr' = Append(stderr, "error: num_records < 1")
          /\ exit_code' = 1
          /\ main_pc' = "exit"
          /\ gen_pc' = gen_pc
     ELSE /\ stderr' = IF num_records > 1000
                       THEN Append(stderr, "warning: many records")
                       ELSE stderr
          /\ exit_code' = exit_code
          /\ main_pc' = "try"
          /\ gen_pc' = "build"
  /\ UNCHANGED <<prog, codec_vars, parser_vars, exc, num_records, g_i,
                 data_records, total_value_sum, checksum, sink>>

\* one iteration of the loop building the data records
GenBuildData(now) ==
  /\ prog = "generate_records" /\ gen_pc = "build" /\ g_i < num_records
  /\ LET record == SampleDataRecord(g_i, now) IN
       IF IsErr(record)
       THEN /\ exc' = record.err
            /\ gen_pc' = "raised"
            /\ UNCHANGED <<data_records, total_value_sum, g_i>>
       ELSE /\ data_records' = Append(data_records, record.val)
            /\ total_value_sum' = total_value_sum + (g_i + 1) * 1000
            /\ g_i' = g_i + 1
            /\ UNCHANGED <<exc, gen_pc>>
  /\ UNCHANGED <<prog, codec_vars, parser_vars, main_pc, stderr, exit_code,
                 num_records, checksum, sink>>

\* after the loop: the checksum, then the header built and written
GenWriteHeader(now) ==
  /\ prog = "generate_records" /\ gen_pc = "build" /\ g_i >= num_records
  /\ checksum' = SumRange(num_records)
  /\ LET header == create_header_record(SampleFileName, 1 + num_records + 1,
                                        DefaultVersion, now) IN
       IF IsErr(header)
       THEN /\ exc' = header.err
            /\ gen_pc' = "raised"
            /\ UNCHANGED <<sink, g_i>>
       ELSE /\ sink' = sink \o header.val
            /\ gen_pc' = "data"
            /\ g_i' = 0
            /\ exc' = exc
  /\ UNCHANGED <<prog, codec_vars, parser_vars, main_pc, stderr, exit_code,
                 num_records, data_records, total_value_sum>>

\* one iteration of the loop writing the data records
GenWriteData ==
  /\ prog = "generate_records" /\ gen_pc = "data" /\ g_i < Len(data_records)
  /\ sink' = sink \o data_records[g_i + 1]
  /\ g_i' = g_i + 1
  /\ UNCHANGED <<prog, codec_vars, parser_vars, main_vars, num_records,
                 gen_pc, data_records, total_value_sum, checksum>>

\* after the loop: the trailer built and written
GenWriteTrailer ==
  /\ prog = "generate_records" /\ gen_pc = "data" /\ g_i >= Len(data_records)
  /\ LET trailer == create_trailer_record(num_records, total_value_sum,
                                          checksum) IN
       IF IsErr(trailer)
       THEN /\ exc' = trailer.err
            /\ gen_pc' = "raised"
            /\ sink' = sink
       ELSE /\ sink' = sink \o trailer.val
            /\ gen_pc' = "flush"
            /\ exc' = exc
  /\ UNCHANGED <<prog, codec_vars, parser_vars, main_pc, stderr, exit_code,
                 num_records, g_i, data_records, total_value_sum, checksum>>

\* output.flush(), and generate_sample_data returns
GenFlush ==
  /\ prog = "generate_records" /\ gen_pc = "flush"
  /\ gen_pc' = "returned"
  /\ UNCHANGED <<prog, codec_vars, parser_vars, main_vars, num_records, g_i,
                 data_records, total_value_sum, checksum, sink>>

\* output.write or output.flush raises (the sink is closed or broken)
GenSinkFails ==
  /\ prog = "generate_records"
  /\ \/ gen_pc = "build" /\ g_i >= num_records
     \/ gen_pc = "data"
     \/ gen_pc = "flush"
  /\ exc' = "OSError"
  /\ gen_pc' = "raised"
  /\ UNCHANGED <<prog, codec_vars, parser_vars, main_pc, stderr, exit_code,
                 num_records, g_i, data_records, total_value_sum, checksum,
                 sink>>

\* main after generate_sample_data returned
GenMainReturn ==
  /\ prog = "generate_records" /\ main_pc = "try" /\ gen_pc = "returned"
  /\ exit_code' = 0
  /\ main_pc' = "exit"
  /\ UNCHANGED <<prog, codec_vars, parser_vars, gen_vars, exc, stderr>>

\* Variant: the except clause exits with 2.
GenMainExcept_Exit2 ==
  /\ prog = "generate_records" /\ main_pc = "try" /\ gen_pc = "raised"
  /\ stderr' = Append(stderr, "error: " \o exc)
  /\ exit_code' = 2
  /\ main_pc' = "exit"
  /\ UNCHANGED <<prog, codec_vars, parser_vars, gen_vars, exc>>

\* main's except clause
GenMainExcept ==
  /\ prog = "generate_records" /\ main_pc = "try" /\ gen_pc = "raised"
  /\ stderr' = Append(stderr, "error: " \o exc)
  /\ exit_code' = 1
  /\ main_pc' = "exit"
  /\ UNCHANGED <<prog, codec_vars, parser_vars, gen_vars, exc>>

\* ------------------------------------------------------------------------
\* record_parser.py: main and parse_stream
\* ------------------------------------------------------------------------
\* main up to the call of parse_stream, and parse_stream up to its loop
ParserMainStart ==
  /\ prog = "record_parser" /\ main_pc = "start"
  /\ main_pc' = "try"
  /\ reader_state' = "Reading"
  /\ results' = <<>>
  /\ record_num' = 1
  /\ UNCHANGED <<prog, codec_vars, gen_vars, stream, pos, parse_calls,
                 summary, printed, exc, stderr, exit_code>>

\* stream.read(RECORD_SIZE): up to RECORD_SIZE bytes from the cursor on
StreamRead(n) ==
  SubSeq(stream, pos + 1,
         IF pos + n <= Len(stream) THEN pos + n ELSE Len(stream))

\* Variant: a short read is not noticed.
IsShort_Never(data) == FALSE

\* Variant: records are numbered from 0.
TaggedRecord_ZeroBased(num, r) ==
  [record_number |-> num - 1, record_type |-> r.val[2], data |-> r.val[1]]

\* Variant: the error is reported and the loop goes on with the next frame.
OnParseError_Skip(r) ==
  /\ stderr' = Append(stderr, "error: parse failed")
  /\ record_num' = record_num + 1
  /\ UNCHANGED <<results, exc, reader_state>>

\* len(data) != RECORD_SIZE: the read came back short
IsShort(data) == Len(data) # RECORD_SIZE

\* the entry appended to results for a parsed record
TaggedRecord(num, r) ==
  [record_number |-> num, record_type |-> r.val[2], data |-> r.val[1]]

\* parse_stream's except clause: the error is reported and raised again
OnParseError(r) ==
  /\ stderr' = Append(stderr, "error: parse failed")
  /\ exc' = r.err
  /\ reader_state' = "Failed"
  /\ UNCHANGED <<results, record_num>>

\* one iteration of parse_stream's loop
ParseStreamStep ==
  /\ prog = "record_parser" /\ reader_state = "Reading"
  /\ LET data == StreamRead(RECORD_SIZE) IN
     /\ pos' = pos + Len(data)
     /\ IF data = <<>>
        THEN /\ reader_state' = "Done"
             /\ UNCHANGED <<results, record_num, parse_calls, exc, stderr>>
        ELSE IF IsShort(data)
        THEN /\ stderr' = Append(stderr, "warning: short record")
             /\ reader_state' = "Truncated"
             /\ UNCHANGED <<results, record_num, parse_calls, exc>>
        ELSE LET r == parse_record(data) IN
             /\ parse_calls' = Append(parse_calls, Len(data))
             /\ IF IsOk(r)
                THEN /\ results' = Append(results,
                                           TaggedRecord(record_num, r))
                     /\ record_num' = record_num + 1
                     /\ UNCHANGED <<reader_state, exc, stderr>>
                ELSE OnParseError(r)
  /\ UNCHANGED <<prog, codec_vars, gen_vars, stream, summary, printed,
                 main_pc, exit_code>>

\* stream.read raises (the source is closed or broken)
ParserReadFails ==
  /\ prog = "record_parser" /\ reader_state = "Reading"
  /\ exc' = "OSError"
  /\ reader_state' = "Failed"
  /\ UNCHANGED <<prog, codec_vars, gen_vars, stream, pos, results,
                 record_num, parse_calls, summary, printed, main_pc, stderr,
                 exit_code>>

CountType(rs, t) == Cardinality({i \in DOMAIN rs : rs[i].record_type = t})

\* main after parse_stream returned: the summary or every record, then a
\* newline
ParserMainPrint ==
  /\ prog = "record_parser" /\ main_pc = "try"
  /\ reader_state \in {"Done", "Truncated"}
  /\ printed' =
       (IF summary
        THEN << <<"summary", Len(results), CountType(results, "HEADER"),
                  CountType(results, "DATA"),
                  CountType(results, "TRAILER")>> >>
        ELSE [i \in DOMAIN results |->
                <<"record", results[i].record_number,
                  results[i].record_type>>])
       \o << <<"newline">> >>
  /\ exit_code' = 0
  /\ main_pc' = "exit"
  /\ UNCHANGED <<prog, codec_vars, gen_vars, stream, pos, reader_state,
                 results, record_num, parse_calls, summary, exc, stderr>>

\* Variant: the except clause reports the error and falls through.
ParserMainExcept_Exit0 ==
  /\ prog = "record_parser" /\ main_pc = "try" /\ reader_state = "Failed"
  /\ stderr' = Append(stderr, "error: " \o exc)
  /\ exit_code' = 0
  /\ main_pc' = "exit"
  /\ UNCHANGED <<prog, codec_vars, gen_vars, parser_vars, exc>>

\* main's except clause
ParserMainExcept ==
  /\ prog = "record_parser" /\ main_pc = "try" /\ reader_state = "Failed"
  /\ stderr' = Append(stderr, "error: " \o exc)
  /\ exit_code' = 1
  /\ main_pc' = "exit"
  /\ UNCHANGED <<prog, codec_vars, gen_vars, parser_vars, exc>>

\* ------------------------------------------------------------------------
\* Specification
\* ------------------------------------------------------------------------
Next ==
  \/ \E kind \in Kinds : \E v \in ValuesOf(kind) : CodecBuild(kind, v)
  \/ \E kind \in Kinds : CodecParse(kind)
  \/ \E kind \in Kinds : \E f \in SubstFrames : CodecParseRaw(kind, f)
  \/ GenMainStart
  \/ \E now \in Clocks : GenBuildData(now)
  \/ \E now \in Clocks : GenWriteHeader(now)
  \/ GenWriteData
  \/ GenWriteTrailer
  \/ GenFlush
  \/ GenSinkFails
  \/ GenMainReturn
  \/ GenMainExcept
  \/ ParserMainStart
  \/ ParseStreamStep
  \/ ParserReadFails
  \/ ParserMainPrint
  \/ ParserMainExcept

Spec == Init /\ [][Next]_vars

\* ------------------------------------------------------------------------
\* Properties of the stream parser
\* ------------------------------------------------------------------------
\* parse_stream has left its loop, and not because the source itself broke
ReaderEnded ==
  /\ prog = "record_parser"
  /\ reader_state \in {"Done", "Truncated", "Failed"}
  /\ exc # "OSError"

\* the kinds of a composed stream's records, in source order
ComposedTypes(n) == <<"HEADER">> \o [i \in 1..n |-> "DATA"] \o <<"TRAILER">>

\* results holds the first m records of the composed stream of n data
\* records, in source order and numbered from 1
HoldsComposedPrefix(n, m) ==
  /\ Len(results) = m
  /\ \A i \in 1..m :
       /\ results[i].record_number = i
       /\ results[i].record_type = ComposedTypes(n)[i]
       /\ results[i].record_type = "HEADER" =>
            results[i].data.total_records = n + 2
       /\ results[i].record_type = "DATA" =>
            /\ results[i].data.record_id = i - 1
            /\ results[i].data.name
                 = sample_names[((i - 2) % Len(sample_names)) + 1]
       /\ results[i].record_type = "TRAILER" =>
            results[i].data.data_record_count = n

\* C1: when the source is one encoded Header, n encoded Data records and
\* one encoded Trailer, parse_stream ends in Done with exactly n + 2
\* records: HEADER, the n DATA in their original order, TRAILER, the i-th
\* numbered i.
C1_StreamComposition ==
  ReaderEnded =>
    \A n \in 0..MaxN :
      (Len(stream) = RECORD_SIZE * (n + 2)
       /\ stream = Concat(ComposedFrames(n)))
      => /\ reader_state = "Done"
         /\ HoldsComposedPrefix(n, n + 2)

C1_Witness ==
  /\ prog = "record_parser"
  /\ reader_state = "Done"
  /\ stream = Concat(ComposedFrames(2))
  /\ Len(results) = 4
  /\ results[3].record_number = 3
  /\ results[3].data.record_id = 2

\* C2: a source one byte short of a composed stream (all full frames
\* valid, 119 bytes left over) makes parse_stream return the n + 1 records
\* of the full frames and end Truncated with a warning; the partial frame
\* is never handed to parse_record and no exception is raised.
C2_Truncation ==
  ReaderEnded =>
    \A n \in 0..MaxN :
      (Len(stream) = RECORD_SIZE * (n + 2) - 1
       /\ stream = SubSeq(Concat(ComposedFrames(n)), 1,
                          RECORD_SIZE * (n + 2) - 1))
      => /\ reader_state = "Truncated"
         /\ HoldsComposedPrefix(n, n + 1)
         /\ stderr = <<"warning: short record">>
         /\ exc = None
         /\ Len(parse_calls) = n + 1
         /\ \A i \in DOMAIN parse_calls : parse_calls[i] = RECORD_SIZE

C2_Witness ==
  /\ prog = "record_parser"
  /\ reader_state = "Truncated"
  /\ Len(stream) = RECORD_SIZE * 4 - 1
  /\ stream = SubSeq(Concat(ComposedFrames(2)), 1, RECORD_SIZE * 4 - 1)
  /\ Len(results) = 3
  /\ pos = Len(stream)

\* the read at the cursor returns a full frame whose first byte names no
\* record kind
UnknownFrameAhead ==
  /\ Len(StreamRead(RECORD_SIZE)) = RECORD_SIZE
  /\ StreamRead(RECORD_SIZE)[1]
       \notin {RECORD_TYPE_HEADER, RECORD_TYPE_DATA, RECORD_TYPE_TRAILER}

\* C3: when the reader pulls a full frame whose first byte is not 1, 2 or
\* 8 it fails with the unknown-record-type error and enters Failed without
\* appending a record; once Failed it reads no later frame and appends
\* nothing more.
C3_FailFast ==
  [][ /\ (prog = "record_parser" /\ reader_state = "Reading"
          /\ pos' # pos /\ UnknownFrameAhead)
         => /\ reader_state' = "Failed"
            /\ exc' = "ValueError: unknown record type"
            /\ pos' = pos + RECORD_SIZE
            /\ results' = results
            /\ record_num' = record_num
      /\ reader_state = "Failed"
         => /\ reader_state' = "Failed"
            /\ pos' = pos
            /\ results' = results
            /\ parse_calls' = parse_calls ]_vars

C3_Witness ==
  /\ prog = "record_parser"
  /\ reader_state = "Failed"
  /\ exc = "ValueError: unknown record type"
  /\ main_pc = "exit"
  /\ Len(results) = 1
  /\ pos = 2 * RECORD_SIZE
  /\ Len(stream) > pos
  /\ stream[RECORD_SIZE + 1] = 5

\* ------------------------------------------------------------------------
\* Properties of the record codecs
\* ------------------------------------------------------------------------
\* the discriminant byte a kind's codec expects
DiscriminantOf(kind) ==
  CASE kind = "HEADER" -> 1
    [] kind = "DATA" -> 2
    [] kind = "TRAILER" -> 8

\* a codec has parsed a frame
HasParsed == prog = "codec" /\ p_kind # None

\* C4: a record codec applied to a 120-byte frame whose first byte is not
\* the codec's constant (Header 1, Data 2, Trailer 8) fails with the
\* constant-mismatch error and returns no value, no partly decoded fields
\* included.
C4_MismatchedDiscriminant ==
  (HasParsed /\ Len(c_frame) = RECORD_SIZE
   /\ c_frame[1] # DiscriminantOf(p_kind))
  => parsed = Err("ConstError")

C4_Witness ==
  /\ HasParsed
  /\ p_kind = "HEADER"
  /\ Len(c_frame) = RECORD_SIZE
  /\ c_frame[1] = 2
  /\ parsed = Err("ConstError")

\* the fields of a kind that hold legacy text, ASCII text and integers
FieldsOfType(kind, t) ==
  {StructOf(kind)[i] : i \in {j \in DOMAIN StructOf(kind) :
                                StructOf(kind)[j].type = t}}

\* A valid logical value: every legacy text is encodable and its bytes fit
\* the field's capacity, every ASCII text is ASCII and fits, every integer
\* is within its field's width, and a Data record's status is 0 or 1.
IsValidValue(kind, v) ==
  /\ \A f \in FieldsOfType(kind, "ShiftJISString") :
       /\ \A i \in DOMAIN v[f.name] : SJISEncodeChar(v[f.name][i]) # <<>>
       /\ Len(SJISEncodeChars(v[f.name])) <= f.width
  /\ \A f \in FieldsOfType(kind, "PaddedString") :
       /\ \A i \in DOMAIN v[f.name] : v[f.name][i] <= 127
       /\ Len(v[f.name]) <= f.width
  /\ \A f \in FieldsOfType(kind, "IntUL") :
       /\ v[f.name] >= 0
       /\ f.width = 1 => v[f.name] <= 255
  /\ kind = "DATA" => v.status \in {0, 1}

\* the value a build was given came back from the same kind's parse
RoundTrips ==
  /\ IsOk(parsed)
  /\ \A n \in DOMAIN c_value : parsed.val[n] = c_value[n]

\* a value was built and the bytes parsed with the same kind's codec
BuiltAndParsedBack ==
  /\ HasParsed /\ c_kind # None /\ p_kind = c_kind
  /\ IsOk(built) /\ c_frame = built.val

\* C5 as stated: every valid logical value decodes, from the bytes its
\* encoding produced, to a value equal to it in every field.
C5_RoundTrip_AsStated ==
  /\ (prog = "codec" /\ c_kind # None /\ IsValidValue(c_kind, c_value))
       => IsOk(built)
  /\ (BuiltAndParsedBack /\ IsValidValue(c_kind, c_value)) => RoundTrips

\* no text of the value ends in U+0000, and no legacy text holds U+00A5 or
\* U+203E (which the encoding maps to the bytes of U+005C and U+007E)
SurvivesPadding(kind, v) ==
  /\ \A f \in FieldsOfType(kind, "ShiftJISString")
            \cup FieldsOfType(kind, "PaddedString") :
       v[f.name] = <<>> \/ v[f.name][Len(v[f.name])] # 0
  /\ \A f \in FieldsOfType(kind, "ShiftJISString") :
       \A i \in DOMAIN v[f.name] : v[f.name][i] \notin {165, 8254}

\* C5: every valid logical value whose texts do not end in U+0000 and whose
\* legacy texts hold neither U+00A5 nor U+203E encodes, and decodes from
\* those bytes to a value equal to it in every field.
C5_RoundTrip ==
  /\ (prog = "codec" /\ c_kind # None /\ IsValidValue(c_kind, c_value))
       => IsOk(built)
  /\ (BuiltAndParsedBack /\ IsValidValue(c_kind, c_value)
      /\ SurvivesPadding(c_kind, c_value)) => RoundTrips

C5_Witness ==
  /\ BuiltAndParsedBack
  /\ c_kind = "DATA"
  /\ IsValidValue(c_kind, c_value)
  /\ c_value.name = <<30000, 20013, 22826, 37070>>
  /\ c_value.record_id = 70000
  /\ RoundTrips

\* C6: every record that encodes is exactly 120 bytes long, its first byte
\* the kind's discriminant and its reserved tail (61, 6 or 103 bytes) all
\* zero, however short its texts are.
C6_FixedLength ==
  /\ \A kind \in Kinds : SizeOf(StructOf(kind)) = RECORD_SIZE
  /\ (prog = "codec" /\ c_kind # None /\ IsOk(built)) =>
       /\ Len(built.val) = RECORD_SIZE
       /\ built.val[1] = DiscriminantOf(c_kind)
       /\ LET tail == StructOf(c_kind)[Len(StructOf(c_kind))].width IN
            /\ tail = (CASE c_kind = "HEADER" -> 61
                         [] c_kind = "DATA" -> 6
                         [] c_kind = "TRAILER" -> 103)
            /\ \A i \in (RECORD_SIZE - tail + 1)..RECORD_SIZE :
                 built.val[i] = 0

C6_Witness ==
  /\ prog = "codec" /\ c_kind = "DATA" /\ IsOk(built)
  /\ c_value.name = <<>>
  /\ Len(built.val) = RECORD_SIZE

\* C7: building a Data record whose name takes more than 50 bytes under
\* the legacy encoding raises the too-long error and returns no bytes at
\* all; and the generator writes nothing before it has built every data
\* record, so a build that raises leaves the sink empty.
C7_OverflowRejection ==
  /\ (prog = "codec" /\ c_kind = "DATA"
      /\ (\A i \in DOMAIN c_value.name :
            SJISEncodeChar(c_value.name[i]) # <<>>)
      /\ Len(SJISEncodeChars(c_value.name)) > 50)
     => built = Err("ValueError: too long")
  /\ (prog = "generate_records" /\ sink # <<>>)
     => Len(data_records) = num_records

C7_Witness ==
  /\ prog = "codec" /\ c_kind = "DATA"
  /\ c_value.name = Repeat(30000, 25) \o <<65>>
  /\ built = Err("ValueError: too long")

\* ------------------------------------------------------------------------
\* Properties of the generator
\* ------------------------------------------------------------------------
\* the k-th 120-byte frame of the sink
SinkFrame(k) == SubSeq(sink, RECORD_SIZE * (k - 1) + 1, RECORD_SIZE * k)

RECURSIVE SumOfValues(_)
\* the sum of the value fields of the sink's data frames 2..k
SumOfValues(k) ==
  IF k < 2 THEN 0
  ELSE Struct_parse(DataRecord, SinkFrame(k)).val.value + SumOfValues(k - 1)

Exited == prog \in {"generate_records", "record_parser"} /\ main_pc = "exit"

\* the run did what was asked: the generator returned, or the reader
\* ended Done or Truncated
RanToSuccess ==
  \/ prog = "generate_records" /\ gen_pc = "returned"
  \/ prog = "record_parser" /\ reader_state \in {"Done", "Truncated"}

\* the input was rejected: a record count below 1, or a frame of the
\* stream that does not parse
InputRejected ==
  \/ prog = "generate_records" /\ num_records < 1
  \/ prog = "record_parser" /\ exc \notin {None, "OSError"}

\* C9 as stated: both entry points exit with 0 on success, 1 on a
\* validation or user-input error and 2 on an unexpected failure (here: the
\* sink or the source raising while generating or parsing).
C9_ExitCodes_AsStated ==
  Exited =>
    /\ RanToSuccess => exit_code = 0
    /\ InputRejected => exit_code = 1
    /\ exc = "OSError" => exit_code = 2

\* C9: both entry points exit with 0 on success and with 1 on a rejected
\* record count and on every exception raised while generating or parsing,
\* an unexpected one included; neither exits with 2.
C9_ExitCodes ==
  Exited =>
    /\ RanToSuccess => exit_code = 0
    /\ InputRejected => exit_code = 1
    /\ exc # None => exit_code = 1
    /\ exit_code \in {0, 1}

C9_Witness ==
  /\ Exited
  /\ exc = "OSError"
  /\ exit_code = 1

\* C10: in Done and Truncated parse_stream hands back every record decoded
\* so far, floor(L / 120) of them for a source of L bytes, and main prints
\* them (each record, or the summary of them all) and exits 0; in Failed
\* the error leaves parse_stream, so main prints nothing to stdout,
\* neither records nor summary, and exits non-zero.
C10_TerminalOutcomes ==
  prog = "record_parser" =>
    /\ reader_state \in {"Done", "Truncated"} =>
         /\ Len(results) = Len(stream) \div RECORD_SIZE
         /\ main_pc = "exit" =>
              /\ exit_code = 0
              /\ Len(printed) = (IF summary THEN 1 ELSE Len(results)) + 1
              /\ summary => printed[1][2] = Len(results)
    /\ reader_state = "Failed" =>
         /\ printed = <<>>
         /\ main_pc = "exit" => exit_code # 0

C10_Witness ==
  /\ prog = "record_parser"
  /\ reader_state = "Failed"
  /\ exc = "ConstError" \/ exc = "StringError"
       \/ exc = "ValueError: unknown record type"
  /\ Len(results) = 2
  /\ main_pc = "exit"
  /\ printed = <<>>
  /\ exit_code = 1
====
